---- MODULE Spec2Model ----
(***************************************************************************)
(* A model of load_balancer.py: the LoadBalancer server registry with its  *)
(* two selection strategies, and Account.transfer.                         *)
(*                                                                         *)
(* Scheduling model.  The module documents its locks as providing thread   *)
(* safety ("It provides thread safety via asyncio.Lock", "Locking to       *)
(* ensure thread safety"), so every lock acquisition (an await) is a       *)
(* point where another task may run, and statements that touch shared      *)
(* state without the lock (set_strategy, reset) may run at any time.       *)
(* Server identifiers and account identifiers are modelled as integers,    *)
(* ordered as the strings are ordered by sorted().                         *)
(***************************************************************************)
EXTENDS Integers, Sequences, FiniteSets, TLC

\* ---------------------------------------------------------------- bounds
NumTasks == 2
NumServers == 3
MaxCapacity == 3
NumAccounts == 2
TotalFunds == 2

Tasks == 1..NumTasks
Servers == 1..NumServers
Accounts == 1..NumAccounts
Amounts == (-1)..TotalFunds

VARIABLES
    servers,        \* LoadBalancer.servers: the set of registered servers
    max_instances,  \* LoadBalancer.max_instances
    strategy,       \* LoadBalancer.strategy: [kind, index]
    lock,           \* LoadBalancer.lock: 0 when free, else the holding task
    pc,             \* per task: "idle" or the registry method it is inside
    arg,            \* per task: the server argument of the method it is inside
    last,           \* outcome of the most recently completed registry call
    picks,          \* get_server results since the member set and strategy last changed
    cursor0         \* whether the round-robin index was 0 when picks was started

rvars == <<servers, max_instances, strategy, lock, pc, arg, last, picks, cursor0>>

VARIABLES
    balance,        \* Account.balance, per account
    acct_lock,      \* Account.lock, per account: 0 when free, else the holding task
    tpc,            \* per task: "idle" or its position inside Account.transfer
    src,            \* per task: self of the transfer it is inside (0 when idle)
    dst,            \* per task: target_account of the transfer it is inside
    amount,         \* per task: amount of the transfer it is inside
    tret,           \* per task: how its last transfer ended ("none" while inside one)
    serial,         \* the balances with the transfers applied one at a time
    expected,       \* per task: how its transfer ended in that serial execution
    before          \* per task: the balances of self and target when its checks passed

tvars == <<balance, acct_lock, tpc, src, dst, amount, tret, serial, expected, before>>

vars == <<rvars, tvars>>

\* ------------------------------------------------------------ strategies
RoundRobinStrategy == [kind |-> "round_robin", index |-> 0]

RandomStrategy == [kind |-> "random", index |-> 0]

RECURSIVE SortedSeq(_)
\* sorted(servers): the ascending sequence of the members of S
SortedSeq(S) ==
    IF S = {} THEN <<>>
    ELSE LET m == CHOOSE x \in S : \A y \in S : x <= y
         IN <<m>> \o SortedSeq(S \ {m})

NextIndexStuck(index, n) == index

\* self.index = (self.index + 1) % len(servers)
NextIndex(index, n) == (index + 1) % n

\* RoundRobinStrategy.select_server: None for an empty list; otherwise
\* servers[self.index], which raises IndexError when the index is past the
\* end of the sorted list and then leaves the index as it was.
RRSelect(S, index) ==
    LET sorted == SortedSeq(S)
        n == Len(sorted)
    IN IF n = 0
       THEN [ret |-> "None", val |-> 0, index |-> index]
       ELSE IF index >= n
       THEN [ret |-> "IndexError", val |-> 0, index |-> index]
       ELSE [ret |-> "server", val |-> sorted[index + 1], index |-> NextIndex(index, n)]

\* ------------------------------------------------------------- outcomes
Outcome(op, a, ret, msg, val) ==
    [op |-> op, arg |-> a, ret |-> ret, msg |-> msg, val |-> val]

\* the bookkeeping of consecutive selections restarts whenever the member
\* set or the strategy (or its index, by reset) is changed from outside
Restart(strat) ==
    /\ picks' = <<>>
    /\ cursor0' = (strat.kind = "round_robin" /\ strat.index = 0)

\* ---------------------------------------------------------------- Init
RegistryInit ==
    /\ servers = {}
    /\ max_instances \in 1..MaxCapacity
    /\ strategy = RoundRobinStrategy
    /\ lock = 0
    /\ pc = [t \in Tasks |-> "idle"]
    /\ arg = [t \in Tasks |-> 0]
    /\ last = Outcome("none", 0, "none", "none", 0)
    /\ picks = <<>>
    /\ cursor0 = TRUE

\* ------------------------------------------------------ register_server
\* async with self.lock: the task enters once the lock is free
Enter(t, method, s) ==
    /\ pc[t] = "idle"
    /\ lock = 0
    /\ lock' = t
    /\ pc' = [pc EXCEPT ![t] = method]
    /\ arg' = [arg EXCEPT ![t] = s]
    /\ UNCHANGED <<servers, max_instances, strategy, last, picks, cursor0>>
    /\ UNCHANGED tvars

\* leaving the async with block releases the lock
Leave(t) ==
    /\ lock' = 0
    /\ pc' = [pc EXCEPT ![t] = "idle"]
    /\ arg' = [arg EXCEPT ![t] = 0]

RegisterEnter(t, s) == Enter(t, "register_server", s)

IsFullOffByOne(count, cap) == count > cap

\* len(self.servers) >= self.max_instances
IsFull(count, cap) == count >= cap

RegisterCheckDuplicateFirst(S, cap, s) ==
    IF s \in S THEN "already_registered"
    ELSE IF IsFull(Cardinality(S), cap) THEN "max_reached"
    ELSE "registered"

RegisterCheckNoDuplicate(S, cap, s) ==
    IF IsFull(Cardinality(S), cap) THEN "max_reached" ELSE "registered"

\* the two checks of register_server, in the order the code makes them
RegisterCheck(S, cap, s) ==
    IF IsFull(Cardinality(S), cap) THEN "max_reached"
    ELSE IF s \in S THEN "already_registered"
    ELSE "registered"

AddServerReplace(S, s) == {s}

\* self.servers.add(server)
AddServer(S, s) == S \cup {s}

RegisterBody(t) ==
    /\ pc[t] = "register_server"
    /\ LET msg == RegisterCheck(servers, max_instances, arg[t])
       IN IF msg = "registered"
          THEN /\ servers' = AddServer(servers, arg[t])
               /\ last' = Outcome("register_server", arg[t], "True", msg, 0)
               /\ Restart(strategy)
          ELSE /\ last' = Outcome("register_server", arg[t], "False", msg, 0)
               /\ UNCHANGED <<servers, picks, cursor0>>
    /\ Leave(t)
    /\ UNCHANGED <<max_instances, strategy>>
    /\ UNCHANGED tvars

\* --------------------------------------------------------- remove_server
RemoveEnter(t, s) == Enter(t, "remove_server", s)

RemoveServerClear(S, s) == {}

\* self.servers.remove(server)
RemoveServer(S, s) == S \ {s}

RemoveBody(t) ==
    /\ pc[t] = "remove_server"
    /\ IF arg[t] \in servers
       THEN /\ servers' = RemoveServer(servers, arg[t])
            /\ last' = Outcome("remove_server", arg[t], "True", "removed", 0)
            /\ Restart(strategy)
       ELSE /\ last' = Outcome("remove_server", arg[t], "False", "not_found", 0)
            /\ UNCHANGED <<servers, picks, cursor0>>
    /\ Leave(t)
    /\ UNCHANGED <<max_instances, strategy>>
    /\ UNCHANGED tvars

\* ---------------------------------------------------------- set_strategy
\* not a coroutine and takes no lock: it may run at any time
\* the value passed to set_strategy: a new strategy object of either class,
\* or a value that is not a LoadBalancingStrategy
StrategyOf(kind) ==
    IF kind = "round_robin" THEN RoundRobinStrategy
    ELSE IF kind = "random" THEN RandomStrategy
    ELSE [kind |-> "invalid", index |-> 0]

IsStrategyAnything(kind) == TRUE

\* isinstance(strategy, LoadBalancingStrategy)
IsStrategy(kind) == kind \in {"round_robin", "random"}

\* the outcome of set_strategy records, as its message, the kind of value passed
SetStrategy(kind) ==
    /\ IF ~ IsStrategy(kind)
       THEN /\ last' = Outcome("set_strategy", 0, "ValueError", kind, 0)
            /\ UNCHANGED <<strategy, picks, cursor0>>
       ELSE /\ strategy' = StrategyOf(kind)
            /\ last' = Outcome("set_strategy", 0, "None", kind, 0)
            /\ Restart(strategy')
    /\ UNCHANGED <<servers, max_instances, lock, pc, arg>>
    /\ UNCHANGED tvars

\* RoundRobinStrategy.reset, called on the strategy object the balancer uses
Reset ==
    /\ strategy.kind = "round_robin"
    /\ strategy' = [strategy EXCEPT !.index = 0]
    /\ last' = Outcome("reset", 0, "None", "none", 0)
    /\ Restart(strategy')
    /\ UNCHANGED <<servers, max_instances, lock, pc, arg>>
    /\ UNCHANGED tvars

\* ------------------------------------------------------------ get_server
GetEnter(t) == Enter(t, "get_server", 0)

\* one more selection is recorded; after two full cycles the record restarts
Record(val, index) ==
    IF Len(picks) >= 2 * Cardinality(servers)
    THEN /\ picks' = <<val>>
         /\ cursor0' = (index = 0)
    ELSE /\ picks' = Append(picks, val)
         /\ UNCHANGED cursor0

NoServersDefault == Outcome("get_server", 0, "server", "no_servers", 1)

\* if not self.servers: print(...); return None
NoServersOutcome == Outcome("get_server", 0, "None", "no_servers", 0)

\* a strategy that is not a LoadBalancingStrategy has no select_server
GetBody(t) ==
    /\ pc[t] = "get_server"
    /\ IF servers = {}
       THEN /\ last' = NoServersOutcome
            /\ UNCHANGED <<strategy, picks, cursor0>>
       ELSE IF strategy.kind = "round_robin"
       THEN LET r == RRSelect(servers, strategy.index)
            IN /\ strategy' = [strategy EXCEPT !.index = r.index]
               /\ last' = Outcome("get_server", 0, r.ret, "none", r.val)
               /\ Record(r.val, strategy.index)
       ELSE IF strategy.kind = "random"
       THEN \E s \in servers :
               /\ last' = Outcome("get_server", 0, "server", "none", s)
               /\ UNCHANGED <<strategy, picks, cursor0>>
       ELSE /\ last' = Outcome("get_server", 0, "AttributeError", "none", 0)
            /\ UNCHANGED <<strategy, picks, cursor0>>
    /\ Leave(t)
    /\ UNCHANGED <<servers, max_instances>>
    /\ UNCHANGED tvars

\* ------------------------------------------------------------- Account
AccountsInit ==
    /\ acct_lock = [a \in Accounts |-> 0]
    /\ tpc = [t \in Tasks |-> "idle"]
    /\ src = [t \in Tasks |-> 0]
    /\ dst = [t \in Tasks |-> 0]
    /\ amount = [t \in Tasks |-> 0]
    /\ tret = [t \in Tasks |-> "none"]
    /\ expected = [t \in Tasks |-> "none"]
    /\ before = [t \in Tasks |-> <<0, 0>>]
    /\ serial = balance

RECURSIVE Sum(_, _)
\* the sum of the balances bal of the accounts in A
Sum(bal, A) ==
    IF A = {} THEN 0
    ELSE LET a == CHOOSE x \in A : TRUE
         IN bal[a] + Sum(bal, A \ {a})

CanAcquireAlways(a) == TRUE

\* asyncio.Lock.acquire returns only when the lock is not held (by any task,
\* the caller included: the lock is not reentrant)
CanAcquire(a) == acct_lock[a] = 0

ReleasedNothing(t) == acct_lock

\* the locks task t holds are released when the async with block is left
Released(t) == [a \in Accounts |-> IF acct_lock[a] = t THEN 0 ELSE acct_lock[a]]

\* Account.transfer(amount, target_account) run with nothing else running:
\* the serial execution the concurrent one is compared with
SerialTransfer(bal, s, d, amt) ==
    IF amt <= 0 THEN [bal |-> bal, ret |-> "invalid_amount"]
    ELSE IF bal[s] < amt THEN [bal |-> bal, ret |-> "insufficient_funds"]
    ELSE [bal |-> [[bal EXCEPT ![s] = @ - amt] EXCEPT ![d] = @ + amt], ret |-> "ok"]

\* async with self.lock, ...: the first lock taken is the source's
TransferEnter(t, s, d, amt) ==
    /\ tpc[t] = "idle"
    /\ CanAcquire(s)
    /\ acct_lock' = [acct_lock EXCEPT ![s] = t]
    /\ tpc' = [tpc EXCEPT ![t] = "lock_target"]
    /\ src' = [src EXCEPT ![t] = s]
    /\ dst' = [dst EXCEPT ![t] = d]
    /\ amount' = [amount EXCEPT ![t] = amt]
    /\ tret' = [tret EXCEPT ![t] = "none"]
    /\ expected' = [expected EXCEPT ![t] = "none"]
    /\ UNCHANGED <<balance, serial, before>>
    /\ UNCHANGED rvars

\* async with ..., target_account.lock: the second lock taken is the target's
AcquireTarget(t) ==
    /\ tpc[t] = "lock_target"
    /\ CanAcquire(dst[t])
    /\ acct_lock' = [acct_lock EXCEPT ![dst[t]] = t]
    /\ tpc' = [tpc EXCEPT ![t] = "check"]
    /\ UNCHANGED <<balance, src, dst, amount, tret, serial, expected, before>>
    /\ UNCHANGED rvars

\* a transfer ends: its locks are released and its arguments are dropped
Return(t, ret) ==
    /\ acct_lock' = Released(t)
    /\ tpc' = [tpc EXCEPT ![t] = "idle"]
    /\ tret' = [tret EXCEPT ![t] = ret]
    /\ src' = [src EXCEPT ![t] = 0]
    /\ dst' = [dst EXCEPT ![t] = 0]
    /\ amount' = [amount EXCEPT ![t] = 0]
    /\ before' = [before EXCEPT ![t] = <<0, 0>>]

TransferCheckNegativeOnly(bal, amt) ==
    IF amt < 0 THEN "invalid_amount"
    ELSE IF bal < amt THEN "insufficient_funds"
    ELSE "pass"

TransferCheckNoFunds(bal, amt) ==
    IF amt <= 0 THEN "invalid_amount" ELSE "pass"

\* the two checks of transfer, in the order the code makes them, on the
\* balance bal of self
TransferCheck(bal, amt) ==
    IF amt <= 0 THEN "invalid_amount"
    ELSE IF bal < amt THEN "insufficient_funds"
    ELSE "pass"

\* the two checks made under the locks; either raises ValueError
Check(t) ==
    /\ tpc[t] = "check"
    /\ LET r == SerialTransfer(serial, src[t], dst[t], amount[t])
       IN /\ serial' = r.bal
          /\ expected' = [expected EXCEPT ![t] = r.ret]
    /\ LET c == TransferCheck(balance[src[t]], amount[t])
       IN IF c = "pass"
          THEN /\ tpc' = [tpc EXCEPT ![t] = "debit"]
               /\ before' = [before EXCEPT ![t] = <<balance[src[t]], balance[dst[t]]>>]
               /\ UNCHANGED <<acct_lock, src, dst, amount, tret>>
          ELSE Return(t, c)
    /\ UNCHANGED balance
    /\ UNCHANGED rvars

DebitNothing(bal, a, amt) == bal

\* self.balance -= amount
DebitBalance(bal, a, amt) == [bal EXCEPT ![a] = @ - amt]

CreditNothing(bal, a, amt) == bal

\* target_account.balance += amount
CreditBalance(bal, a, amt) == [bal EXCEPT ![a] = @ + amt]

Debit(t) ==
    /\ tpc[t] = "debit"
    /\ balance' = DebitBalance(balance, src[t], amount[t])
    /\ tpc' = [tpc EXCEPT ![t] = "credit"]
    /\ UNCHANGED <<acct_lock, src, dst, amount, tret, serial, expected, before>>
    /\ UNCHANGED rvars

Credit(t) ==
    /\ tpc[t] = "credit"
    /\ balance' = CreditBalance(balance, dst[t], amount[t])
    /\ Return(t, "ok")
    /\ UNCHANGED <<serial, expected>>
    /\ UNCHANGED rvars

\* ------------------------------------------------------------------ Next
\* the registry, with the accounts left alone
Init ==
    /\ RegistryInit
    /\ balance = [a \in Accounts |-> IF a = 1 THEN TotalFunds ELSE 0]
    /\ AccountsInit

Next ==
    \/ \E t \in Tasks, s \in Servers : RegisterEnter(t, s)
    \/ \E t \in Tasks : RegisterBody(t)
    \/ \E t \in Tasks, s \in Servers : RemoveEnter(t, s)
    \/ \E t \in Tasks : RemoveBody(t)
    \/ \E kind \in {"round_robin", "random", "invalid"} : SetStrategy(kind)
    \/ Reset
    \/ \E t \in Tasks : GetEnter(t)
    \/ \E t \in Tasks : GetBody(t)

Spec == Init /\ [][Next]_vars

\* the accounts, with the registry left alone
TransferInit ==
    /\ RegistryInit
    /\ max_instances = MaxCapacity
    /\ balance \in {b \in [Accounts -> 0..TotalFunds] : Sum(b, Accounts) = TotalFunds}
    /\ AccountsInit

TransferNext ==
    \/ \E t \in Tasks, s \in Accounts, d \in Accounts, amt \in Amounts :
          TransferEnter(t, s, d, amt)
    \/ \E t \in Tasks : AcquireTarget(t)
    \/ \E t \in Tasks : Check(t)
    \/ \E t \in Tasks : Debit(t)
    \/ \E t \in Tasks : Credit(t)

TransferSpec == TransferInit /\ [][TransferNext]_vars

\* ================================================================ claims
\* a task completes the registry method m in this step
Completes(t, m) == pc[t] = m /\ pc'[t] = "idle"

\* C1: in every reachable state the number of registered servers is at most
\* the capacity max_instances.
C1_WithinCapacity == Cardinality(servers) <= max_instances

\* C1 witness: a register on a registry filled to a capacity of at least two
\* was turned away.
C1_Witness ==
    /\ max_instances >= 2
    /\ Cardinality(servers) = max_instances
    /\ last.op = "register_server"
    /\ last.msg = "max_reached"
    /\ last.arg \notin servers

\* C2: a round-robin get_server on a non-empty registry returns the element
\* at position (cursor mod n) of the ascending-sorted members, n being the
\* current member count, and so never fails.
C2_SelectsCursorModN ==
    [][\A t \in Tasks :
         (Completes(t, "get_server") /\ servers # {} /\ strategy.kind = "round_robin")
         => /\ last'.ret = "server"
            /\ last'.val = SortedSeq(servers)[(strategy.index % Cardinality(servers)) + 1]
      ]_vars

\* C3: two transfers in opposite directions never reach a state where each
\* task holds one account lock and waits for the lock the other holds.
C3_NoCircularWait ==
    \A t1, t2 \in Tasks :
       ~ /\ t1 # t2
         /\ tpc[t1] = "lock_target"
         /\ tpc[t2] = "lock_target"
         /\ acct_lock[dst[t1]] = t2
         /\ acct_lock[dst[t2]] = t1

\* C4: a transfer from an account to itself never waits for the lock it
\* already holds: it ends with a rejection instead of blocking on itself.
C4_SelfTransferDoesNotBlock ==
    \A t \in Tasks : ~ (tpc[t] = "lock_target" /\ acct_lock[dst[t]] = t)

\* C5: whenever no transfer is between its checks and its return, the
\* balances are those of the transfers applied one at a time (in the order
\* of their checks), and every finished transfer ended as it ends in that
\* serial execution.
C5_SerialOrder ==
    /\ (\A t \in Tasks : tpc[t] \in {"idle", "lock_target", "check"}) => balance = serial
    /\ \A t \in Tasks : (tpc[t] = "idle" /\ tret[t] # "none") => tret[t] = expected[t]

\* C5 witness: two transfers have ended, one applied and one refused for
\* insufficient funds, leaving the first account empty.
C5_Witness ==
    /\ \A t \in Tasks : tpc[t] = "idle"
    /\ tret[1] = "ok"
    /\ tret[2] = "insufficient_funds"
    /\ balance[1] = 0

\* C6: from a round-robin cursor of 0 and with an unchanged member set of
\* size n, consecutive get_server calls return the members in ascending
\* order, one each per n calls, and then the same sequence again.
C6_RoundRobinOrder ==
    cursor0 =>
      \A i \in 1..Len(picks) :
         /\ servers # {}
         /\ picks[i] = SortedSeq(servers)[((i - 1) % Cardinality(servers)) + 1]

\* C6 witness: three registered servers, five consecutive selections.
C6_Witness ==
    /\ cursor0
    /\ Cardinality(servers) = 3
    /\ Len(picks) = 5

\* C7: register_server on a full registry is rejected as full and leaves the
\* member set unchanged, also when the id is already registered.
C7_FullRejectedFirst ==
    [][\A t \in Tasks :
         (Completes(t, "register_server") /\ Cardinality(servers) = max_instances)
         => /\ last' = Outcome("register_server", arg[t], "False", "max_reached", 0)
            /\ servers' = servers
      ]_vars

\* C7 witness: an already-registered id was offered to a full registry and
\* turned away as full.
C7_Witness ==
    /\ last.op = "register_server"
    /\ last.msg = "max_reached"
    /\ last.ret = "False"
    /\ last.arg \in servers
    /\ Cardinality(servers) = max_instances

\* C8: register_server of an already-registered id on a registry that is not
\* full returns failure (duplicate) and leaves the member set unchanged.
C8_DuplicateRejected ==
    [][\A t \in Tasks :
         (/\ Completes(t, "register_server")
          /\ arg[t] \in servers
          /\ Cardinality(servers) < max_instances)
         => /\ last' = Outcome("register_server", arg[t], "False", "already_registered", 0)
            /\ servers' = servers
      ]_vars

\* C8 witness: a duplicate was turned away from a registry with room left.
C8_Witness ==
    /\ last.op = "register_server"
    /\ last.msg = "already_registered"
    /\ last.ret = "False"
    /\ last.arg \in servers
    /\ Cardinality(servers) < max_instances

\* C9: register_server of an unregistered id on a registry below capacity
\* returns success and the member set becomes the old set plus the id.
C9_RegisterAdds ==
    [][\A t \in Tasks :
         (/\ Completes(t, "register_server")
          /\ arg[t] \notin servers
          /\ Cardinality(servers) < max_instances)
         => /\ last' = Outcome("register_server", arg[t], "True", "registered", 0)
            /\ servers' = servers \cup {arg[t]}
      ]_vars

\* C9 witness: a server was registered next to one already there.
C9_Witness ==
    /\ last.op = "register_server"
    /\ last.ret = "True"
    /\ last.arg \in servers
    /\ Cardinality(servers) >= 2

\* C10: remove_server of a registered id returns success, the id is no longer
\* a member and every other member still is; remove_server of an id that is
\* not registered returns not-found and leaves the member set unchanged.
C10_Remove ==
    [][\A t \in Tasks :
         Completes(t, "remove_server")
         => IF arg[t] \in servers
            THEN /\ last' = Outcome("remove_server", arg[t], "True", "removed", 0)
                 /\ servers' = servers \ {arg[t]}
            ELSE /\ last' = Outcome("remove_server", arg[t], "False", "not_found", 0)
                 /\ servers' = servers
      ]_vars

\* C10 witness: a server was removed and another one is still registered.
C10_Witness ==
    /\ last.op = "remove_server"
    /\ last.ret = "True"
    /\ last.arg \notin servers
    /\ servers # {}

\* C11: get_server on a registry with no members returns None under either
\* strategy and with any round-robin index: never an error, never a server.
C11_EmptyReturnsNone ==
    [][\A t \in Tasks :
         (Completes(t, "get_server") /\ servers = {})
         => /\ last'.op = "get_server"
            /\ last'.ret = "None"
            /\ last'.val = 0
            /\ strategy' = strategy
      ]_vars

\* C11 witness: every server was removed after the round-robin index had
\* advanced, and get_server then returned None.
C11_Witness ==
    /\ last.op = "get_server"
    /\ last.ret = "None"
    /\ servers = {}
    /\ strategy.kind = "round_robin"
    /\ strategy.index > 0

\* a task takes the step of transfer that leads from position p to position q
Moves(t, p, q) == tpc[t] = p /\ tpc'[t] = q

\* C12: a transfer of amount > 0 from a source holding at least amount to a
\* different account passes the checks and ends ok, with the source exactly
\* amount below and the destination exactly amount above what they were at
\* the checks; its debit and its credit change no other account.
C12_TransferMovesAmount ==
    [][\A t \in Tasks :
         /\ (/\ tpc[t] = "check"
             /\ tpc'[t] # "check"
             /\ amount[t] > 0
             /\ balance[src[t]] >= amount[t]
             /\ src[t] # dst[t])
            => Moves(t, "check", "debit")
         /\ Moves(t, "debit", "credit")
            => \A a \in Accounts \ {src[t]} : balance'[a] = balance[a]
         /\ Moves(t, "credit", "idle")
            => /\ tret'[t] = "ok"
               /\ balance'[src[t]] = before[t][1] - amount[t]
               /\ balance'[dst[t]] = before[t][2] + amount[t]
               /\ \A a \in Accounts \ {dst[t]} : balance'[a] = balance[a]
      ]_vars

\* C12 witness: a transfer that left its source with funds has ended ok.
C12_Witness ==
    \E t \in Tasks, a, b \in Accounts :
       /\ tpc[t] = "idle"
       /\ tret[t] = "ok"
       /\ a # b
       /\ balance[a] > 0
       /\ balance[b] > 0

C14_InvalidAmountTakesNoLock ==
    \A t \in Tasks :
       (tpc[t] # "idle" /\ amount[t] <= 0) => \A a \in Accounts : acct_lock[a] # t

\* C15: set_strategy given a value that is not a strategy signals ValueError
\* and leaves the active strategy and the member set unchanged.
C15_InvalidStrategyRejected ==
    [][(last' # last /\ last'.op = "set_strategy" /\ last'.msg = "invalid")
         => /\ last'.ret = "ValueError"
            /\ strategy' = strategy
            /\ servers' = servers
      ]_vars

\* C15 witness: a non-strategy was refused while the random strategy was
\* active over a non-empty registry.
C15_Witness ==
    /\ last.op = "set_strategy"
    /\ last.ret = "ValueError"
    /\ strategy.kind = "random"
    /\ servers # {}

\* C16: starting from non-negative balances, every balance is non-negative
\* in every reachable state.
C16_NonNegative == \A a \in Accounts : balance[a] >= 0

\* C16 witness: a transfer has debited its source down to exactly zero.
C16_Witness ==
    \E t \in Tasks : tpc[t] = "credit" /\ balance[src[t]] = 0 /\ amount[t] > 0

\* C17: a transfer between two distinct accounts that holds one lock and is
\* about to take the other holds the lock of the lower account identifier.
C17_CanonicalLockOrder ==
    \A t \in Tasks :
       (tpc[t] = "lock_target" /\ src[t] # dst[t])
       => \A a \in Accounts : acct_lock[a] = t => (a <= src[t] /\ a <= dst[t])

\* C18: a task that is not inside a transfer holds no account lock, however
\* its last transfer ended.
C18_LocksReleased ==
    \A t \in Tasks : tpc[t] = "idle" => \A a \in Accounts : acct_lock[a] # t

\* C18 witness: after a transfer ended by raising, another task has taken
\* both locks of a transfer between two distinct accounts.
C18_Witness ==
    /\ tpc[1] = "idle"
    /\ tret[1] \in {"invalid_amount", "insufficient_funds"}
    /\ tpc[2] = "check"
    /\ src[2] # dst[2]
    /\ acct_lock[src[2]] = 2
    /\ acct_lock[dst[2]] = 2

\* C19: the active strategy is replaced only while no task is inside a
\* register_server, remove_server or get_server critical section, and at
\* most one task is inside such a section.
C19_StrategyReplacedUnderLock ==
    /\ [](Cardinality({t \in Tasks : pc[t] # "idle"}) <= 1)
    /\ [][(last' # last /\ last'.op = "set_strategy" /\ last'.ret = "None")
            => lock = 0
         ]_vars

\* C20: whenever no transfer is between its checks and its return, the sum
\* of all balances is the sum the accounts were created with.
C20_SumPreserved ==
    (\A t \in Tasks : tpc[t] \in {"idle", "lock_target", "check"})
    => Sum(balance, Accounts) = TotalFunds

\* C20 witness: a transfer that was applied and one that was refused have
\* both ended, and funds have reached the last account.
C20_Witness ==
    /\ \A t \in Tasks : tpc[t] = "idle"
    /\ tret[1] = "ok"
    /\ tret[2] = "invalid_amount"
    /\ balance[NumAccounts] > 0

====
